---- MODULE Spec2Model ----
(***************************************************************************)
(* A model of the PTX device code generator, src/src/CodeGen_PTX_Dev.cpp.  *)
(*                                                                         *)
(* The generator is a recursive visitor over a statement tree.  The model  *)
(* runs it as a stack machine: `stack` holds one frame per visit() call    *)
(* that is waiting for its body, `pc` says whether the generator is about  *)
(* to visit a node, is returning from one, or is unwinding after a failed  *)
(* assertion.  The tree is the input: the node met at each visit is drawn  *)
(* from the node sets below, so the behaviours of Spec are the lowerings   *)
(* of every module of at most MaxNodes kernels and nodes, its kernels      *)
(* added one after the other to the same code generator.                   *)
(***************************************************************************)
EXTENDS Integers, Sequences, FiniteSets, TLC

VARIABLES pc, stack, syms, emit_atomic_stores, function, blocks, insert, op,
          pre, ret, budget, err, px

vars == <<pc, stack, syms, emit_atomic_stores, function, blocks, insert, op,
          pre, ret, budget, err, px>>

\* ------------------------------------------------------------------ bounds

\* Number of nodes of one module: its kernels and the nodes (other than
\* no-ops) of their statement trees.
MaxNodes == 5

\* ------------------------------------------------------------------- names

\* A name is the tuple of its dot-separated components: f.__thread_id_x is
\* <<"f", "__thread_id_x">>.
ends_with(name, suffix) == Len(name) >= 2 /\ name[Len(name)] = suffix

ArgNames == {<<"buf">>}
AllocNames == {<<"a">>}
LoopNames == {<<"f", "__thread_id_x">>, <<"f", "__block_id_y">>, <<"i">>}
Names == ArgNames \cup AllocNames \cup LoopNames

is_gpu_var(name) ==
    \E s \in {"__thread_id_x", "__thread_id_y", "__thread_id_z", "__thread_id_w",
              "__block_id_x", "__block_id_y", "__block_id_z", "__block_id_w"} :
        ends_with(name, s)

\* The register-read intrinsic of an axis variable; "" stands for the
\* internal_error the code raises on any other name.
simt_intrinsic(name) ==
    IF ends_with(name, "__thread_id_x") THEN "llvm.nvvm.read.ptx.sreg.tid.x"
    ELSE IF ends_with(name, "__thread_id_y") THEN "llvm.nvvm.read.ptx.sreg.tid.y"
    ELSE IF ends_with(name, "__thread_id_z") THEN "llvm.nvvm.read.ptx.sreg.tid.z"
    ELSE IF ends_with(name, "__thread_id_w") THEN "llvm.nvvm.read.ptx.sreg.tid.w"
    ELSE IF ends_with(name, "__block_id_x") THEN "llvm.nvvm.read.ptx.sreg.ctaid.x"
    ELSE IF ends_with(name, "__block_id_y") THEN "llvm.nvvm.read.ptx.sreg.ctaid.y"
    ELSE IF ends_with(name, "__block_id_z") THEN "llvm.nvvm.read.ptx.sreg.ctaid.z"
    ELSE IF ends_with(name, "__block_id_w") THEN "llvm.nvvm.read.ptx.sreg.ctaid.w"
    ELSE ""

\* ------------------------------------------------------------ symbol table

\* The scoped binding table: one stack of values per name, innermost first.
NoSyms == [n \in Names |-> <<>>]

sym_exists(t, name) == t[name] /= <<>>

sym_push(t, name, value) == [t EXCEPT ![name] = <<value>> \o @]

sym_pop(t, name) == [t EXCEPT ![name] = Tail(@)]

sym_get(t, name) == Head(t[name])

\* --------------------------------------------------------------- emission

\* The function under construction: its basic blocks in the order they were
\* created, each the sequence of instructions emitted into it so far.  The
\* insertion point is the number of a block, 0 before there is one.
entry_block == 1

body_block == 2

NoBlocks == <<>>

NoInsert == 0

\* The member `function`: the number of the kernel add_kernel was last called
\* for, 0 before the first.
NoFunction == 0

\* BasicBlock::Create: a new empty block at the end of the function.
NewBlock(b) == Append(b, <<>>)

Emit(b, at, instr) == [b EXCEPT ![at] = Append(@, instr)]

NoOp == [k |-> "none"]
NoRet == [k |-> "none"]
NoPx == [k |-> "none"]

\* What the step just taken started from: `pre` holds it, with the kind of the
\* step ("visit": a node was dispatched to its visit(), and `op` is that node).
Snap(step) ==
    [step |-> step, pc |-> pc, syms |-> syms, flag |-> emit_atomic_stores,
     blocks |-> blocks, insert |-> insert, depth |-> Len(stack),
     top |-> IF stack = <<>> THEN "none" ELSE Head(stack).k]

Frame(kind, name) ==
    [k |-> kind, name |-> name, old |-> emit_atomic_stores, syms0 |-> syms,
     flag0 |-> emit_atomic_stores, insert0 |-> insert]

Top == Head(stack)

\* A failed user_assert / internal_assert: the exception leaves the handler
\* before it changes anything, and unwinding starts.
Fail(e) ==
    /\ pc' = "unwind"
    /\ err' = e
    /\ UNCHANGED <<function, stack, syms, emit_atomic_stores, blocks, insert>>

\* ------------------------------------------------------------------- Init

Init ==
    /\ pc = "idle"
    /\ stack = <<>>
    /\ syms = NoSyms
    /\ emit_atomic_stores = FALSE
    /\ function = NoFunction
    /\ blocks = NoBlocks
    /\ insert = NoInsert
    /\ op = NoOp
    /\ pre = Snap("init")
    /\ ret = NoRet
    /\ budget = MaxNodes
    /\ err = "none"
    /\ px = NoPx

\* ------------------------------------------------------------- add_kernel

\* add_kernel up to stmt.accept(this): a new function, its entry block, the
\* argument bindings, the body block.  It is called once per kernel of the
\* module, on the code generator as the kernel before left it.
AddKernel ==
    /\ pc \in {"idle", "done", "error"}
    /\ budget > 0
    /\ budget' = budget - 1
    /\ function' = function + 1
    /\ blocks' = NewBlock(NewBlock(NoBlocks))
    /\ syms' = sym_push(syms, <<"buf">>,
                        [k |-> "arg", id |-> 0, fn |-> function + 1])
    /\ insert' = body_block
    /\ stack' = <<[Frame("kernel", <<"buf">>) EXCEPT !.insert0 = entry_block]>>
    /\ pc' = "visit"
    /\ op' = NoOp
    /\ pre' = [Snap("add_kernel") EXCEPT !.blocks = NoBlocks, !.insert = NoInsert]
    /\ ret' = NoRet
    /\ err' = "none"
    /\ UNCHANGED <<emit_atomic_stores, px>>

\* llvm::verifyFunction: true when the function is broken.  A block has to
\* end with its only terminator, and a value that is used has to be an
\* argument of the function or an alloca of its entry block.
IsTerminator(i) == i.k \in {"br", "ret"}

verifyFunction(b, f) ==
    \/ \E n \in 1..Len(b) :
          \/ b[n] = <<>>
          \/ ~IsTerminator(b[n][Len(b[n])])
          \/ \E i \in 1..(Len(b[n]) - 1) : IsTerminator(b[n][i])
    \/ \E n \in 1..Len(b) : \E i \in 1..Len(b[n]) :
          /\ b[n][i].k \in {"load", "store"}
          /\ \/ b[n][i].ptr.k = "arg" /\ b[n][i].ptr.fn /= f
             \/ /\ b[n][i].ptr.k = "alloca"
                /\ \A j \in 1..Len(b[entry_block]) :
                      b[entry_block][j] /= b[n][i].ptr

\* add_kernel after stmt.accept(this) returns: the function is ended and
\* verified, and what verifyFunction returns is not looked at.
FinishKernel ==
    /\ pc = "ret"
    /\ stack /= <<>>
    /\ Top.k = "kernel"
    /\ blocks' = Emit(Emit(blocks, insert, [k |-> "ret"]), entry_block,
                      [k |-> "br", to |-> body_block])
    /\ insert' = entry_block
    /\ syms' = sym_pop(syms, Top.name)
    /\ stack' = Tail(stack)
    /\ pc' = "done"
    /\ pre' = Snap("return")
    /\ ret' = [k |-> "kernel", name |-> Top.name, syms0 |-> Top.syms0,
               flag0 |-> Top.flag0, insert0 |-> Top.insert0,
               broken |-> verifyFunction(blocks', function)]
    /\ UNCHANGED <<function, emit_atomic_stores, op, budget, err, px>>

\* -------------------------------------------------------------------- For

\* CodeGen_LLVM::visit(const For *) entering and leaving the body of a serial
\* loop: the block the builder is at ends with a branch to a new block.
BranchToNewBlock(b, at) ==
    NewBlock(Emit(b, at, [k |-> "br", to |-> Len(b) + 1]))

ForNodes == [k : {"For"}, name : LoopNames, min : {0, 1}]

\* Mutant of LoopMinCheck: the lower bound is not looked at.
LoopMinCheckOff(n) == "none"

\* The internal_assert of visit(const For *) on an axis loop.
LoopMinCheck(n) ==
    IF n.min /= 0 THEN "internal_assert: is_const_zero(loop->min)" ELSE "none"

\* visit(const For *), up to codegen(loop->body).
VisitFor ==
    /\ pc = "visit"
    /\ budget > 0
    /\ \E n \in ForNodes :
        /\ op' = n
        /\ budget' = budget - 1
        /\ pre' = Snap("visit")
        /\ ret' = NoRet
        /\ px' = px
        /\ IF is_gpu_var(n.name)
           THEN IF LoopMinCheck(n) /= "none"
                THEN Fail(LoopMinCheck(n))
                ELSE /\ blocks' = Emit(blocks, insert,
                                       [k |-> "call", f |-> simt_intrinsic(n.name)])
                     /\ syms' = sym_push(syms, n.name,
                                         [k |-> "call", f |-> simt_intrinsic(n.name)])
                     /\ stack' = <<Frame("For", n.name)>> \o stack
                     /\ pc' = "visit"
                     /\ UNCHANGED <<function, emit_atomic_stores, insert, err>>
           ELSE \* CodeGen_LLVM::visit(loop): a serial loop, its body in a
                \* block of its own
                /\ blocks' = BranchToNewBlock(blocks, insert)
                /\ insert' = Len(blocks) + 1
                /\ syms' = sym_push(syms, n.name, [k |-> "phi"])
                /\ stack' = <<Frame("For", n.name)>> \o stack
                /\ pc' = "visit"
                /\ UNCHANGED <<function, emit_atomic_stores, err>>

\* visit(const For *), after codegen(loop->body) returns.  A serial loop
\* closes its body block with the back edge and goes on in a new block.
ReturnFor ==
    /\ pc = "ret"
    /\ stack /= <<>>
    /\ Top.k = "For"
    /\ IF is_gpu_var(Top.name)
       THEN UNCHANGED <<function, blocks, insert>>
       ELSE /\ blocks' = BranchToNewBlock(blocks, insert)
            /\ insert' = Len(blocks) + 1
    /\ syms' = sym_pop(syms, Top.name)
    /\ stack' = Tail(stack)
    /\ pc' = "ret"
    /\ pre' = Snap("return")
    /\ ret' = [k |-> "For", name |-> Top.name, syms0 |-> Top.syms0,
               flag0 |-> Top.flag0, insert0 |-> Top.insert0]
    /\ UNCHANGED <<function, emit_atomic_stores, op, budget, err, px>>

\* ---------------------------------------------------------- memory accesses

\* What visit(const Load *) and visit(const Store *) read of a node: the
\* buffer name, is_const_one(predicate), whether the index is a Ramp and its
\* base, stride and lanes, the element width, and the alignment.
Access(name, pred, ramp, base, stride, lanes, bits, modulus, remainder) ==
    [name |-> name, pred |-> pred, ramp |-> ramp, base |-> base, stride |-> stride,
     lanes |-> lanes, bits |-> bits,
     align |-> [modulus |-> modulus, remainder |-> remainder]]

\* ModulusRemainder / int: the alignment of (modulus * x + remainder) / d,
\* known when d divides the modulus, nothing ({1, 0}) otherwise.
AlignDiv(al, d) ==
    IF al.modulus % d = 0
    THEN [modulus |-> al.modulus \div d, remainder |-> al.remainder \div d]
    ELSE [modulus |-> 1, remainder |-> 0]

\* Mutant of IsDenseRamp4x32: lanes >= 4, not lanes == 4.
IsDenseRampWide(a) ==
    a.pred /\ a.ramp /\ a.stride = 1 /\ a.lanes >= 4 /\ a.bits = 32

\* The outer condition of the wide-access match.
IsDenseRamp4x32(a) ==
    a.pred /\ a.ramp /\ a.stride = 1 /\ a.lanes = 4 /\ a.bits = 32

\* Mutant of IsAligned4: the remainder is not looked at.
IsAlignedModulusOnly(a) == a.align.modulus % 4 = 0

\* The inner condition: the alignment is provably a multiple of 4.
IsAligned4(a) == a.align.modulus % 4 = 0 /\ a.align.remainder % 4 = 0

\* The 128-bit access the match builds: UIntN(128) scalar at simplify(base / 4),
\* const_true() predicate, alignment / 4.
WideAccess(a) ==
    [a EXCEPT !.pred = TRUE, !.ramp = FALSE, !.base = a.base \div 4,
              !.stride = 0, !.lanes = 1, !.bits = 128,
              !.align = AlignDiv(a.align, 4)]

Ok(instrs) == [err |-> "none", instrs |-> instrs]
Bad(e) == [err |-> e, instrs |-> <<>>]

\* CodeGen_LLVM::visit(const Load *): the generic path.  It resolves the
\* buffer through the symbol table and emits one load of the node as given.
GenericLoad(a, t) ==
    IF ~sym_exists(t, a.name) THEN Bad("internal_assert: name not in scope")
    ELSE Ok(<<[k |-> "load", acc |-> a, ptr |-> sym_get(t, a.name)]>>)

\* CodeGen_LLVM::visit(const Store *): the generic path.
GenericStore(a, flag, t) ==
    IF ~sym_exists(t, a.name) THEN Bad("internal_assert: name not in scope")
    ELSE Ok(<<[k |-> "store", acc |-> a, ptr |-> sym_get(t, a.name),
               atomic |-> flag]>>)

\* reinterpret(type, e): a bit cast to lanes x bits.
Reinterpret(lanes, bits) == [k |-> "bitcast", lanes |-> lanes, bits |-> bits]

\* visit(const Load *).  codegen(equiv) dispatches the rewritten expression
\* to this visitor again: the reinterpret call lowers its argument, the wide
\* load, and then casts it.
RECURSIVE visit_Load(_, _)
visit_Load(a, t) ==
    IF IsDenseRamp4x32(a) /\ IsAligned4(a)
    THEN LET w == visit_Load(WideAccess(a), t)
         IN IF w.err /= "none" THEN w
            ELSE Ok(w.instrs \o <<Reinterpret(a.lanes, a.bits)>>)
    ELSE GenericLoad(a, t)

\* Mutant of AtomicStoreCheck: the predicate is not looked at.
AtomicStoreCheckWidthOnly(a, flag) ==
    IF flag /\ ~(a.bits >= 32) THEN "user_assert: op->value.type().bits() >= 32"
    ELSE "none"

\* The check a store gets inside an atomic region.
AtomicStoreCheck(a, flag) ==
    IF flag /\ ~a.pred THEN "user_assert: is_const_one(op->predicate)"
    ELSE IF flag /\ ~(a.bits >= 32) THEN "user_assert: op->value.type().bits() >= 32"
    ELSE "none"

\* visit(const Store *).  codegen(equiv) dispatches the rewritten store to
\* this visitor again, after its value, the reinterpret call, is lowered.
RECURSIVE visit_Store(_, _, _)
visit_Store(a, flag, t) ==
    IF AtomicStoreCheck(a, flag) /= "none" THEN Bad(AtomicStoreCheck(a, flag))
    ELSE IF IsDenseRamp4x32(a) /\ IsAligned4(a)
    THEN LET w == visit_Store(WideAccess(a), flag, t)
         IN IF w.err /= "none" THEN w
            ELSE Ok(<<Reinterpret(1, 128)>> \o w.instrs)
    ELSE GenericStore(a, flag, t)

\* Sequence s appended to block `at`.
EmitAll(b, at, s) == [b EXCEPT ![at] = @ \o s]

\* The accesses the kernels of Spec hold: a dense aligned 4 x 32-bit access to
\* the buffer argument, a 16-bit one, a predicated one, and a scalar 32-bit
\* access to the allocation a.
KernelAccesses ==
    {Access(<<"buf">>, TRUE, TRUE, 0, 1, 4, 32, 4, 0),
     Access(<<"buf">>, TRUE, FALSE, 0, 0, 1, 16, 1, 0),
     Access(<<"buf">>, FALSE, TRUE, 0, 1, 4, 32, 4, 0),
     Access(<<"a">>, TRUE, FALSE, 0, 0, 1, 32, 1, 0)}

StoreNodes == {[k |-> "Store", acc |-> a] : a \in KernelAccesses}
LoadNodes ==
    {[k |-> "Load", acc |-> a] : a \in {b \in KernelAccesses : b.pred /\ b.bits = 32}}

\* visit(const Store *) on a node of the tree.
VisitStore ==
    /\ pc = "visit"
    /\ budget > 0
    /\ \E n \in StoreNodes :
        LET r == visit_Store(n.acc, emit_atomic_stores, syms) IN
        /\ op' = n
        /\ budget' = budget - 1
        /\ pre' = Snap("visit")
        /\ ret' = NoRet
        /\ px' = px
        /\ IF r.err /= "none"
           THEN Fail(r.err)
           ELSE /\ blocks' = EmitAll(blocks, insert, r.instrs)
                /\ pc' = "ret"
                /\ UNCHANGED <<function, stack, syms, emit_atomic_stores, insert, err>>

\* visit(const Load *) on a load evaluated as a statement.
VisitLoad ==
    /\ pc = "visit"
    /\ budget > 0
    /\ \E n \in LoadNodes :
        LET r == visit_Load(n.acc, syms) IN
        /\ op' = n
        /\ budget' = budget - 1
        /\ pre' = Snap("visit")
        /\ ret' = NoRet
        /\ px' = px
        /\ IF r.err /= "none"
           THEN Fail(r.err)
           ELSE /\ blocks' = EmitAll(blocks, insert, r.instrs)
                /\ pc' = "ret"
                /\ UNCHANGED <<function, stack, syms, emit_atomic_stores, insert, err>>

\* ----------------------------------------------------------------- Atomic

AtomicNodes == [k : {"Atomic"}, mutex_name : {"", "m"}]

\* Mutant of AtomicMutexCheck: the mutex name is not looked at.
AtomicMutexCheckOff(n) == "none"

\* The user_assert visit(const Atomic *) opens with.
AtomicMutexCheck(n) ==
    IF n.mutex_name /= "" THEN "user_assert: op->mutex_name.empty()" ELSE "none"

\* Mutant of ScopedValueRestore: the flag is cleared, not restored.
ScopedValueClear(old) == FALSE

\* The value ~ScopedValue leaves in the flag, given the value it saved.
ScopedValueRestore(old) == old

\* visit(const Atomic *), up to the lowering of the body.  The generic
\* visitor it delegates to sets the flag again, to the same value.
VisitAtomic ==
    /\ pc = "visit"
    /\ budget > 0
    /\ \E n \in AtomicNodes :
        /\ op' = n
        /\ budget' = budget - 1
        /\ pre' = Snap("visit")
        /\ ret' = NoRet
        /\ px' = px
        /\ IF AtomicMutexCheck(n) /= "none"
           THEN Fail(AtomicMutexCheck(n))
           ELSE /\ stack' = <<Frame("Atomic", <<>>)>> \o stack
                /\ emit_atomic_stores' = TRUE
                /\ pc' = "visit"
                /\ UNCHANGED <<function, syms, blocks, insert, err>>

\* visit(const Atomic *) returning: ~ScopedValue puts the old value back.
ReturnAtomic ==
    /\ pc = "ret"
    /\ stack /= <<>>
    /\ Top.k = "Atomic"
    /\ emit_atomic_stores' = ScopedValueRestore(Top.old)
    /\ stack' = Tail(stack)
    /\ pc' = "ret"
    /\ pre' = Snap("return")
    /\ ret' = [k |-> "Atomic", name |-> Top.name, syms0 |-> Top.syms0,
               flag0 |-> Top.flag0, insert0 |-> Top.insert0]
    /\ UNCHANGED <<function, syms, blocks, insert, op, budget, err, px>>

\* --------------------------------------------------------------- Allocate

AllocateNodes ==
    [k : {"Allocate"}, name : AllocNames, new_expr : BOOLEAN,
     memory_type : {"Stack"}, size : {0 - 1, 0, 2}]
    \cup [k : {"Allocate"}, name : AllocNames, new_expr : BOOLEAN,
          memory_type : {"GPUShared"}, size : {0}]

\* Mutant of AllocaBlock: the alloca is emitted where the builder is.
AllocaBlockHere(here) == here

\* The number of instructions emitted so far: what tells one Value from
\* another.
RECURSIVE InstrCount(_)
InstrCount(b) == IF b = <<>> THEN 0 ELSE Len(Head(b)) + InstrCount(Tail(b))

\* The block the alloca of a local allocation goes to, given the block the
\* builder is at, and the block the builder is put back to afterwards.
AllocaBlock(here) == entry_block

BlockAfterAlloca(here) == here

\* Mutant of AllocateCheck: the new expression is looked at on the local
\* path only.
AllocateCheckLocalOnly(n) ==
    IF n.memory_type = "GPUShared" THEN "none"
    ELSE IF n.new_expr THEN "user_assert: !alloc->new_expr.defined()"
    ELSE IF ~(n.size > 0) THEN "internal_assert: size > 0"
    ELSE "none"

\* The assertions of visit(const Allocate *), in the order it makes them.
AllocateCheck(n) ==
    IF n.new_expr THEN "user_assert: !alloc->new_expr.defined()"
    ELSE IF n.memory_type /= "GPUShared" /\ ~(n.size > 0)
    THEN "internal_assert: size > 0"
    ELSE "none"

\* visit(const Allocate *), up to codegen(alloc->body).  size is
\* alloc->constant_allocation_size(): 0 for a dynamic size.
VisitAllocate ==
    /\ pc = "visit"
    /\ budget > 0
    /\ \E n \in AllocateNodes :
        /\ op' = n
        /\ budget' = budget - 1
        /\ pre' = Snap("visit")
        /\ ret' = NoRet
        /\ px' = px
        /\ IF AllocateCheck(n) /= "none"
           THEN Fail(AllocateCheck(n))
           ELSE IF n.memory_type = "GPUShared"
           THEN /\ syms' = sym_push(syms, n.name, [k |-> "null", addrspace |-> 3])
                /\ stack' = <<Frame("Allocate", n.name)>> \o stack
                /\ pc' = "visit"
                /\ UNCHANGED <<function, emit_atomic_stores, blocks, insert, err>>
           ELSE LET ptr == [k |-> "alloca", size |-> n.size, fn |-> function,
                            id |-> InstrCount(blocks) + 1]
                IN /\ blocks' = Emit(blocks, AllocaBlock(insert), ptr)
                   /\ insert' = BlockAfterAlloca(insert)
                   /\ syms' = sym_push(syms, n.name, ptr)
                   /\ stack' = <<Frame("Allocate", n.name)>> \o stack
                   /\ pc' = "visit"
                   /\ UNCHANGED <<function, emit_atomic_stores, err>>

\* visit(const Allocate *) returning: nothing follows codegen(alloc->body).
ReturnAllocate ==
    /\ pc = "ret"
    /\ stack /= <<>>
    /\ Top.k = "Allocate"
    /\ stack' = Tail(stack)
    /\ pc' = "ret"
    /\ pre' = Snap("return")
    /\ ret' = [k |-> "Allocate", name |-> Top.name, syms0 |-> Top.syms0,
               flag0 |-> Top.flag0, insert0 |-> Top.insert0]
    /\ UNCHANGED <<function, syms, emit_atomic_stores, blocks, insert, op, budget, err, px>>

\* ------------------------------------------------------------------- Free

FreeNodes == [k : {"Free"}, name : AllocNames]

\* visit(const Free *): sym_pop(f->name).  Scope::pop asserts the name is
\* bound.
VisitFree ==
    /\ pc = "visit"
    /\ budget > 0
    /\ \E n \in FreeNodes :
        /\ op' = n
        /\ budget' = budget - 1
        /\ pre' = Snap("visit")
        /\ ret' = NoRet
        /\ px' = px
        /\ IF ~sym_exists(syms, n.name)
           THEN Fail("internal_assert: name not in scope")
           ELSE /\ syms' = sym_pop(syms, n.name)
                /\ pc' = "ret"
                /\ UNCHANGED <<function, stack, emit_atomic_stores, blocks, insert, err>>

\* ------------------------------------------------------------------ Block

\* CodeGen_LLVM::visit(const Block *): codegen(first); codegen(rest).
VisitBlock ==
    /\ pc = "visit"
    /\ budget > 0
    /\ op' = [k |-> "Block"]
    /\ budget' = budget - 1
    /\ stack' = <<Frame("Block", <<"first">>)>> \o stack
    /\ pc' = "visit"
    /\ pre' = Snap("visit")
    /\ ret' = NoRet
    /\ UNCHANGED <<function, syms, emit_atomic_stores, blocks, insert, err, px>>

\* first has been lowered: rest is next.
BlockRest ==
    /\ pc = "ret"
    /\ stack /= <<>>
    /\ Top.k = "Block"
    /\ Top.name = <<"first">>
    /\ stack' = <<[Top EXCEPT !.name = <<"rest">>]>> \o Tail(stack)
    /\ pc' = "visit"
    /\ pre' = Snap("rest")
    /\ ret' = NoRet
    /\ UNCHANGED <<function, syms, emit_atomic_stores, blocks, insert, op, budget, err, px>>

ReturnBlock ==
    /\ pc = "ret"
    /\ stack /= <<>>
    /\ Top.k = "Block"
    /\ Top.name = <<"rest">>
    /\ stack' = Tail(stack)
    /\ pc' = "ret"
    /\ pre' = Snap("return")
    /\ ret' = [k |-> "Block", name |-> Top.name, syms0 |-> Top.syms0,
               flag0 |-> Top.flag0, insert0 |-> Top.insert0]
    /\ UNCHANGED <<function, syms, emit_atomic_stores, blocks, insert, op, budget, err, px>>

\* ---------------------------------------------------------------- no-op

\* Evaluate(0): the statement that lowers to nothing.
VisitNoOp ==
    /\ pc = "visit"
    /\ op' = [k |-> "NoOp"]
    /\ pc' = "ret"
    /\ pre' = Snap("visit")
    /\ ret' = NoRet
    /\ UNCHANGED <<function, stack, syms, emit_atomic_stores, blocks, insert, budget, err, px>>

\* ---------------------------------------------------------------- barrier

\* The arguments of a gpu_thread_barrier call: integer immediates (the fence
\* types None, Device and Shared) and an expression that is no constant.
BarrierArgs ==
    [const : {TRUE}, v : {0, 1, 2}] \cup {[const |-> FALSE, v |-> 0]}

BarrierNodes ==
    [k : {"Barrier"},
     args : {<<>>} \cup {<<x>> : x \in BarrierArgs}
               \cup {<<x, y>> : x \in BarrierArgs, y \in BarrierArgs}]

\* as_const_int(e): whether e is an integer immediate.
as_const_int(e) == e.const

ConstantInt(bits, v) == [k |-> "const", bits |-> bits, v |-> v]

\* The assertions of visit(const Call *) on a barrier, in their order.
BarrierCheck(n) ==
    IF Len(n.args) /= 1
    THEN "internal_assert: op->args.size() == 1"
    ELSE IF ~as_const_int(n.args[1])
    THEN "internal_assert: fence_type_ptr"
    ELSE "none"

\* Mutant of BarrierCall: a fence type of None gets no barrier.
BarrierCallByFence(n) ==
    IF n.args[1].v = 0 THEN <<>>
    ELSE <<[k |-> "call", f |-> "llvm.nvvm.barrier0"]>>

\* The instructions a checked barrier is lowered to: the call of barrier0,
\* whatever the fence type.
BarrierCall(n) == <<[k |-> "call", f |-> "llvm.nvvm.barrier0"]>>

\* visit(const Call *) for the gpu_thread_barrier intrinsic.  `ret` takes
\* the member `value`, the result of lowering the expression.
VisitBarrier ==
    /\ pc = "visit"
    /\ budget > 0
    /\ \E n \in BarrierNodes :
        /\ op' = n
        /\ budget' = budget - 1
        /\ pre' = Snap("visit")
        /\ px' = px
        /\ IF BarrierCheck(n) /= "none"
           THEN /\ Fail(BarrierCheck(n))
                /\ ret' = NoRet
           ELSE /\ blocks' = EmitAll(blocks, insert, BarrierCall(n))
                /\ ret' = [k |-> "Call", value |-> ConstantInt(32, 0)]
                /\ pc' = "ret"
                /\ UNCHANGED <<function, stack, syms, emit_atomic_stores, insert, err>>

\* ---------------------------------------------------------------- unwind

\* A C++ exception leaving one visit() call: the destructors of its locals
\* run (the ScopedValue of an atomic region), nothing else does.
Unwind ==
    /\ pc = "unwind"
    /\ stack /= <<>>
    /\ emit_atomic_stores' = IF Top.k = "Atomic" THEN ScopedValueRestore(Top.old)
                                              ELSE emit_atomic_stores
    /\ stack' = Tail(stack)
    /\ pc' = IF Len(stack) = 1 THEN "error" ELSE "unwind"
    /\ pre' = Snap("unwind")
    /\ ret' = [k |-> "unwound", frame |-> Top.k, name |-> Top.name,
               syms0 |-> Top.syms0, flag0 |-> Top.flag0, insert0 |-> Top.insert0]
    /\ UNCHANGED <<function, syms, blocks, insert, op, budget, err, px>>

Next ==
    \/ AddKernel
    \/ FinishKernel
    \/ VisitFor
    \/ ReturnFor
    \/ VisitAllocate
    \/ ReturnAllocate
    \/ VisitFree
    \/ VisitStore
    \/ VisitLoad
    \/ VisitAtomic
    \/ ReturnAtomic
    \/ VisitBlock
    \/ BlockRest
    \/ ReturnBlock
    \/ VisitNoOp
    \/ Unwind

Spec == Init /\ [][Next]_vars

\* The kernels whose statements are barriers, blocks and no-ops.
NextBarrier ==
    \/ AddKernel
    \/ FinishKernel
    \/ VisitBarrier
    \/ VisitBlock
    \/ BlockRest
    \/ ReturnBlock
    \/ VisitNoOp
    \/ Unwind

SpecBarrier == Init /\ [][NextBarrier]_vars

\* =================================================== one access, executed

\* The specification SpecAccess lowers one load or store, drawn from every
\* combination of the properties the match reads, and then executes the
\* code that was emitted and the code of the generic path on a memory.

\* Largest ramp base, and largest alignment modulus, of the accesses drawn.
MaxBase == 4

MaxModulus == 8

\* Memory is addressed in 32-bit words; one bit of each word is kept.
Addrs == 0..(MaxBase + 3)

Memories == [Addrs -> {0, 1}]

\* The alignments that are true of an index with this base: modulus 0 says
\* the index is the constant `remainder`.
AlignmentsOf(base) ==
    {[modulus |-> 0, remainder |-> base]}
    \cup {[modulus |-> m, remainder |-> base % m] : m \in 1..MaxModulus}

AccessInputs ==
    {Access(<<"buf">>, p, r, b, s, l, w, al.modulus, al.remainder) :
        p \in BOOLEAN, r \in BOOLEAN, b \in 0..MaxBase, s \in {1, 2},
        l \in {2, 4, 8}, w \in {8, 16, 32, 64},
        al \in UNION {AlignmentsOf(x) : x \in 0..MaxBase}}

ConsistentInputs ==
    {a \in AccessInputs : a.align \in AlignmentsOf(a.base)}

\* The binding table of a kernel whose only name is the buffer argument.
ArgSyms == sym_push(NoSyms, <<"buf">>, [k |-> "arg", id |-> 0, fn |-> NoFunction])

\* A value in a register: its type and its words in memory order.
Value(lanes, bits, words) == [lanes |-> lanes, bits |-> bits, words |-> words]

NoValue == Value(0, 0, <<>>)

\* The word addresses of an access whose elements are whole words: lane l
\* is element base + l * stride, and element e is the words e * bits / 32 on.
RECURSIVE WordsOf(_, _)
WordsOf(a, lane) ==
    IF lane >= a.lanes THEN <<>>
    ELSE LET e == a.base + lane * a.stride
             w == a.bits \div 32
         IN [i \in 1..w |-> e * w + (i - 1)] \o WordsOf(a, lane + 1)

InMemory(a) == \A i \in 1..Len(WordsOf(a, 0)) : WordsOf(a, 0)[i] \in Addrs

\* One emitted instruction executed on a machine state [mem, reg, ok].
Exec(i, m) ==
    IF i.k = "load"
    THEN [m EXCEPT !.reg = Value(i.acc.lanes, i.acc.bits,
                                 [j \in 1..Len(WordsOf(i.acc, 0)) |->
                                      m.mem[WordsOf(i.acc, 0)[j]]])]
    ELSE IF i.k = "bitcast"
    THEN [m EXCEPT !.reg = Value(i.lanes, i.bits, m.reg.words),
                   !.ok = m.ok /\ i.lanes * i.bits = m.reg.lanes * m.reg.bits]
    ELSE IF i.k = "store"
    THEN [m EXCEPT !.mem = [x \in Addrs |->
                               IF \E j \in 1..Len(WordsOf(i.acc, 0)) :
                                      WordsOf(i.acc, 0)[j] = x
                               THEN m.reg.words[CHOOSE j \in 1..Len(WordsOf(i.acc, 0)) :
                                                    WordsOf(i.acc, 0)[j] = x]
                               ELSE m.mem[x]],
                   !.ok = m.ok /\ m.reg.lanes = i.acc.lanes
                               /\ m.reg.bits = i.acc.bits]
    ELSE m

RECURSIVE Run(_, _)
Run(instrs, m) ==
    IF instrs = <<>> THEN m ELSE Run(Tail(instrs), Exec(Head(instrs), m))

Machine(mem, reg) == [mem |-> mem, reg |-> reg, ok |-> TRUE]

\* The code an access lowers to: by this code generator, and by the generic
\* path alone.
Lowered(kind, a, flag) ==
    IF kind = "Load" THEN visit_Load(a, ArgSyms) ELSE visit_Store(a, flag, ArgSyms)

Generic(kind, a, flag) ==
    IF kind = "Load" THEN GenericLoad(a, ArgSyms) ELSE GenericStore(a, flag, ArgSyms)

IsWide(instrs) ==
    \E i \in 1..Len(instrs) : instrs[i].k \in {"load", "store"} /\ instrs[i].acc.bits = 128

Idle ==
    /\ pc = "idle"
    /\ stack = <<>>
    /\ syms = NoSyms
    /\ emit_atomic_stores = FALSE
    /\ function = NoFunction
    /\ blocks = NoBlocks
    /\ insert = NoInsert
    /\ op = NoOp
    /\ pre = Snap("init")
    /\ ret = NoRet
    /\ budget = 0
    /\ err = "none"

InitAccess ==
    /\ Idle
    /\ \E kind \in {"Load", "Store"}, a \in ConsistentInputs, flag \in BOOLEAN :
        /\ kind = "Load" => ~flag
        /\ px = [k |-> "access", phase |-> "node", kind |-> kind, acc |-> a,
                 flag |-> flag]

\* The node is lowered.
AccessLower ==
    /\ px.k = "access"
    /\ px.phase = "node"
    /\ px' = [k |-> "access", phase |-> "lowered", kind |-> px.kind, acc |-> px.acc,
              flag |-> px.flag, code |-> Lowered(px.kind, px.acc, px.flag)]
    /\ UNCHANGED <<function, pc, stack, syms, emit_atomic_stores, blocks, insert, op, pre, ret,
                   budget, err>>

\* The 32-bit lanes a store of 4 lanes writes: values no memory holds.
StoredValue == Value(4, 32, <<2, 3, 4, 5>>)

\* A wide access was emitted: it runs, and so does the generic code of the
\* same node, on the same memory.
AccessRun ==
    /\ px.k = "access"
    /\ px.phase = "lowered"
    /\ px.code.err = "none"
    /\ IsWide(px.code.instrs)
    /\ px.acc.bits = 32
    /\ InMemory(px.acc)
    /\ \E mem \in Memories :
        LET reg == IF px.kind = "Load" THEN NoValue
                   ELSE [StoredValue EXCEPT !.lanes = px.acc.lanes,
                                            !.words = SubSeq(<<2, 3, 4, 5, 6, 7, 8, 9>>,
                                                             1, px.acc.lanes)]
            wide == Run(px.code.instrs, Machine(mem, reg))
            plain == Run(Generic(px.kind, px.acc, px.flag).instrs, Machine(mem, reg))
        IN px' = [k |-> "access", phase |-> "ran", kind |-> px.kind, acc |-> px.acc,
                  flag |-> px.flag, code |-> px.code, wide |-> wide, plain |-> plain,
                  \* a store through one path read back through the other
                  wide_plain |-> Run(GenericLoad(px.acc, ArgSyms).instrs,
                                     Machine(wide.mem, NoValue)),
                  plain_wide |-> Run(visit_Load(px.acc, ArgSyms).instrs,
                                     Machine(plain.mem, NoValue))]
    /\ UNCHANGED <<function, pc, stack, syms, emit_atomic_stores, blocks, insert, op, pre, ret,
                   budget, err>>

NextAccess == AccessLower \/ AccessRun

SpecAccess == InitAccess /\ [][NextAccess]_vars

\* ==================================================== vector reductions

\* The specification SpecReduce lowers one VectorReduce node.

\* An element type: Int(bits), UInt(bits), Float(bits).
IntN(bits) == [int |-> TRUE, uint |-> FALSE, bits |-> bits]

UIntN(bits) == [int |-> FALSE, uint |-> TRUE, bits |-> bits]

FloatN(bits) == [int |-> FALSE, uint |-> FALSE, bits |-> bits]

\* An operand of the multiply, as lossless_cast sees it: the interval its
\* lanes are known to lie in.
Operand(lo, hi) == [lo |-> lo, hi |-> hi]

\* An expression that is not defined, and the cast of a multiply operand
\* (`of` says which one) to a type.
Undefined == [defined |-> FALSE]

Cast(t, of) == [defined |-> TRUE, type |-> t, of |-> of]

Pow2(n) == 2 ^ n

can_represent(t, e) ==
    IF t.int THEN 0 - Pow2(t.bits - 1) <= e.lo /\ e.hi <= Pow2(t.bits - 1) - 1
    ELSE 0 <= e.lo /\ e.hi <= Pow2(t.bits) - 1

\* lossless_cast(t, e): the cast when t holds every value of e, else an
\* undefined expression.
lossless_cast(t, e, of) == IF can_represent(t, e) THEN Cast(t, of) ELSE Undefined

\* Mutant of Narrow8: for a signed target the unsigned cast is tried first.
Narrow8UnsignedFirst(is_uint, e, of) ==
    IF lossless_cast(UIntN(8), e, of).defined \/ is_uint
    THEN lossless_cast(UIntN(8), e, of)
    ELSE lossless_cast(IntN(8), e, of)

\* Try to narrow a multiply argument to 8-bit.
Narrow8(is_uint, e, of) ==
    IF is_uint
    THEN lossless_cast(UIntN(8), e, of)
    ELSE IF lossless_cast(IntN(8), e, of).defined
    THEN lossless_cast(IntN(8), e, of)
    ELSE \* try uint
         lossless_cast(UIntN(8), e, of)

\* Try 16-bit instead.
Narrow16(is_uint, e, of) ==
    IF ~lossless_cast(UIntN(16), e, of).defined /\ ~is_uint
    THEN lossless_cast(IntN(16), e, of)
    ELSE lossless_cast(UIntN(16), e, of)

\* The name of the fused call.
DotName(a, b) ==
    <<IF a.type.bits = 8 THEN "dp4a" ELSE "dp2a",
      IF a.type.int THEN "_s32" ELSE "_u32",
      IF b.type.int THEN "_s32" ELSE "_u32">>

\* The pattern the dot-product match opens with.
IsDotShape(r) ==
    /\ r.op = "Add"
    /\ r.mul
    /\ (r.input_lanes \div r.lanes) % 4 = 0
    /\ (r.type = IntN(32) \/ r.type = UIntN(32))

\* Mutant of SwapArgs: the arguments are never swapped.
SwapArgsNever(a, b) == FALSE

\* std::swap(a, b) is done when only a was narrowed to 8-bit, so that the one
\* still to be narrowed is always a.
SwapArgs(a, b) == a.defined /\ ~b.defined

\* codegen_vector_reduce: the call it emits, or the generic path.
codegen_vector_reduce(r) ==
    IF IsDotShape(r)
    THEN LET a8 == Narrow8(r.type.uint, r.a, "mul->a")
             b8 == Narrow8(r.type.uint, r.b, "mul->b")
             \* If only one was narrowed, swap so that the other is a
             swap == SwapArgs(a8, b8)
             a1 == IF swap THEN b8 ELSE a8
             b1 == IF swap THEN a8 ELSE b8
             a_orig == IF swap THEN r.b ELSE r.a
             a_of == IF swap THEN "mul->b" ELSE "mul->a"
             a2 == IF b1.defined /\ ~a1.defined
                   THEN Narrow16(r.type.uint, a_orig, a_of)
                   ELSE a1
         IN IF a2.defined /\ b1.defined
            THEN [path |-> "dot", name |-> DotName(a2, b1), a |-> a2, b |-> b1]
            ELSE [path |-> "generic"]
    ELSE [path |-> "generic"]

Operands ==
    {Operand(0, 100), Operand(0 - 5, 5), Operand(0, 200), Operand(0 - 300, 300),
     Operand(0, 1000), Operand(0, 40000), Operand(0 - 70000, 70000)}

ReduceInputs ==
    {r \in [op : {"Add", "Max"}, mul : BOOLEAN, input_lanes : {4, 8, 16},
            lanes : {1, 2, 4}, type : {IntN(32), UIntN(32), IntN(16), FloatN(32)},
            a : Operands, b : Operands] :
        r.input_lanes % r.lanes = 0}

InitReduce ==
    /\ Idle
    /\ \E r \in ReduceInputs : px = [k |-> "reduce", phase |-> "node", node |-> r]

ReduceLower ==
    /\ px.k = "reduce"
    /\ px.phase = "node"
    /\ px' = [k |-> "reduce", phase |-> "lowered", node |-> px.node,
              out |-> codegen_vector_reduce(px.node)]
    /\ UNCHANGED <<function, pc, stack, syms, emit_atomic_stores, blocks, insert, op, pre, ret,
                   budget, err>>

NextReduce == ReduceLower

SpecReduce == InitReduce /\ [][NextReduce]_vars

\* ------------------------------------------------- target capabilities

\* The CUDA capability features of a Target, by their number, and the targets
\* a code generator can be built for: any set of them.
CUDACapabilities == {30, 32, 35, 50, 61, 70, 75, 80}

Targets == SUBSET CUDACapabilities

has_feature(target, f) == f \in target

features_any_of(target, fs) == \E f \in fs : has_feature(target, f)

mcpu(target) ==
    IF has_feature(target, 80) THEN "sm_80"
    ELSE IF has_feature(target, 75) THEN "sm_75"
    ELSE IF has_feature(target, 70) THEN "sm_70"
    ELSE IF has_feature(target, 61) THEN "sm_61"
    ELSE IF has_feature(target, 50) THEN "sm_50"
    ELSE IF has_feature(target, 35) THEN "sm_35"
    ELSE IF has_feature(target, 32) THEN "sm_32"
    ELSE IF has_feature(target, 30) THEN "sm_30"
    ELSE "sm_20"

\* Mutant of mattrs: capability 7.5 is left out of the ptx60 group.
mattrsWithout75(target) ==
    IF has_feature(target, 80) THEN "+ptx70"
    ELSE IF has_feature(target, 70) THEN "+ptx60"
    ELSE IF has_feature(target, 61) THEN "+ptx50"
    ELSE IF features_any_of(target, {32, 50}) THEN "+ptx40"
    ELSE ""

mattrs(target) ==
    IF has_feature(target, 80) THEN "+ptx70"
    ELSE IF has_feature(target, 70) \/ has_feature(target, 75) THEN "+ptx60"
    ELSE IF has_feature(target, 61) THEN "+ptx50"
    ELSE IF features_any_of(target, {32, 50})
    THEN \* Need ptx isa 4.0.
         "+ptx40"
    ELSE \* Use the default.
         ""

\* Target::get_cuda_capability_lower_bound(): the generation resolved for
\* the target, as a number.
get_cuda_capability_lower_bound(target) ==
    IF target = {} THEN 20
    ELSE CHOOSE f \in target : \A g \in target : g <= f

\* Halide types as supports_atomic_add reads them.
AtomicTypes == [code : {"Int", "UInt", "Float", "Handle"}, bits : {8, 16, 32, 64}]

is_int_or_uint(t) == t.code \in {"Int", "UInt"}

is_float(t) == t.code = "Float"

\* Mutant of supports_atomic_add: double atomics from the generation after
\* 6.1 on.
supports_atomic_add_after61(target, t) ==
    IF t.bits < 32 THEN FALSE
    ELSE IF is_int_or_uint(t) THEN TRUE
    ELSE IF is_float(t) /\ t.bits = 32 THEN TRUE
    ELSE IF is_float(t) /\ t.bits = 64
    THEN get_cuda_capability_lower_bound(target) > 61
    ELSE FALSE

supports_atomic_add(target, t) ==
    IF t.bits < 32 THEN FALSE
    ELSE IF is_int_or_uint(t) THEN TRUE
    ELSE IF is_float(t) /\ t.bits = 32 THEN TRUE
    ELSE IF is_float(t) /\ t.bits = 64
    THEN \* double atomics are supported since CC6.1
         get_cuda_capability_lower_bound(target) >= 61
    ELSE FALSE

\* A code generator built for a target is asked for its architecture, its
\* feature string and whether it supports an atomic add of a type.
InitTarget ==
    /\ Idle
    /\ \E target \in Targets, t \in AtomicTypes :
          px = [k |-> "target", phase |-> "built", target |-> target, type |-> t]

TargetResolve ==
    /\ px.k = "target"
    /\ px.phase = "built"
    /\ px' = [k |-> "target", phase |-> "resolved", target |-> px.target,
              type |-> px.type, mcpu |-> mcpu(px.target),
              mattrs |-> mattrs(px.target),
              supports_atomic_add |-> supports_atomic_add(px.target, px.type)]
    /\ UNCHANGED <<function, pc, stack, syms, emit_atomic_stores, blocks, insert, op, pre, ret,
                   budget, err>>

NextTarget == TargetResolve

SpecTarget == InitTarget /\ [][NextTarget]_vars

\* ================================================================ claims

\* The frames of the visits that are waiting for their body.
Frames(kind) == {i \in 1..Len(stack) : stack[i].k = kind}

Lowering == pc \in {"visit", "ret"}

Visited(kind) == pre.step = "visit" /\ op.k = kind

Returned(kind) == pre.step = "return" /\ ret.k = kind

\* The failed assertion left everything as the handler found it.
NothingDone ==
    /\ pc = "unwind"
    /\ syms = pre.syms
    /\ blocks = pre.blocks
    /\ insert = pre.insert
    /\ emit_atomic_stores = pre.flag
    /\ Len(stack) = pre.depth

\* The register-read primitive of each axis suffix.
RegisterOf ==
    [s \in {"__thread_id_x", "__block_id_y"} |->
        IF s = "__thread_id_x" THEN "llvm.nvvm.read.ptx.sreg.tid.x"
        ELSE "llvm.nvvm.read.ptx.sreg.ctaid.y"]

AxisLoop(n) == n.k = "For" /\ Len(n.name) = 2 /\ n.name[2] \in DOMAIN RegisterOf

\* C1, the part that holds as stated.  An axis loop with a non-zero lower
\* bound fails and emits, binds and lowers nothing.  With a zero lower bound
\* exactly one call of the register read of its suffix is emitted at the
\* insertion point, the loop variable is bound to that call for as long as
\* the body is lowered, and once the body has been lowered the loop returns:
\* the body is never lowered again.
C1_AxisLoopLowering ==
    /\ (Visited("For") /\ AxisLoop(op) /\ op.min /= 0)
          => NothingDone /\ err = "internal_assert: is_const_zero(loop->min)"
    /\ (Visited("For") /\ AxisLoop(op) /\ op.min = 0)
          => LET read == [k |-> "call", f |-> RegisterOf[op.name[2]]] IN
             /\ pc = "visit"
             /\ blocks = [pre.blocks EXCEPT ![pre.insert] = Append(@, read)]
             /\ syms = [pre.syms EXCEPT ![op.name] = <<read>> \o @]
             /\ Len(stack) = pre.depth + 1
             /\ Top.k = "For" /\ Top.name = op.name
    /\ \A i \in Frames("For") :
          AxisLoop(stack[i]) /\ Lowering
             => /\ sym_exists(syms, stack[i].name)
                /\ sym_get(syms, stack[i].name)
                      = [k |-> "call", f |-> RegisterOf[stack[i].name[2]]]
    /\ (pre.pc = "ret" /\ pre.top = "For")
          => Returned("For") /\ pc = "ret" /\ Len(stack) = pre.depth - 1

\* C1 as amended.  On return from an axis loop the loop variable has the
\* bindings it had on entry and every other name has the bindings the body
\* left it with.
C1_AxisLoop ==
    /\ C1_AxisLoopLowering
    /\ (Returned("For") /\ AxisLoop(ret))
          => /\ syms[ret.name] = ret.syms0[ret.name]
             /\ \A n \in Names \ {ret.name} : syms[n] = pre.syms[n]

\* C1 as stated: on return from an axis loop the binding table equals the
\* table on entry.
C1_AxisLoopOriginal ==
    /\ C1_AxisLoopLowering
    /\ (Returned("For") /\ AxisLoop(ret)) => syms = ret.syms0

\* C1 witness: an axis loop nested in a loop on the same variable returns.
C1_Witness ==
    /\ Returned("For")
    /\ AxisLoop(ret)
    /\ Len(syms[ret.name]) = 1
    /\ \E i \in Frames("For") : stack[i].name = ret.name

\* C2.  An atomic region with a mutex name fails with the mutex error, with
\* the flag, the emitted code, the bindings and the stack of visits as they
\* were, and that error is the one the lowering ends with.
C2_MutexRejected ==
    /\ (Visited("Atomic") /\ op.mutex_name /= "")
          => NothingDone /\ err = "user_assert: op->mutex_name.empty()"
    /\ (op.k = "Atomic" /\ op.mutex_name /= "" /\ pre.step \in {"visit", "unwind"})
          => /\ pc \in {"unwind", "error"}
             /\ err = "user_assert: op->mutex_name.empty()"
             /\ blocks = pre.blocks

\* C2 witness: a mutex region met inside an atomic region, flag set.
C2_Witness ==
    /\ Visited("Atomic")
    /\ op.mutex_name /= ""
    /\ pre.flag
    /\ emit_atomic_stores

\* C3.  The flag is set whenever the body of an atomic region is being
\* lowered and clear whenever none is; an atomic region returns with the flag
\* it was entered with; a store lowered outside every region is not atomic.
C3_AtomicFlagScoped ==
    /\ (Frames("Atomic") /= {}) => emit_atomic_stores
    /\ (Lowering /\ Frames("Atomic") = {}) => ~emit_atomic_stores
    /\ Returned("Atomic") => emit_atomic_stores = ret.flag0
    /\ (Visited("Atomic") /\ op.mutex_name = "")
          => emit_atomic_stores /\ Top.k = "Atomic" /\ Top.old = pre.flag
    /\ (Visited("Store") /\ pc = "ret" /\ Frames("Atomic") = {})
          => ~blocks[insert][Len(blocks[insert])].atomic

\* C3 witness: an inner region returns inside an outer one, flag still set.
C3_Witness ==
    /\ Returned("Atomic")
    /\ ret.flag0
    /\ emit_atomic_stores
    /\ Frames("Atomic") /= {}

IsAtomicStoreError(e) ==
    e \in {"user_assert: is_const_one(op->predicate)",
           "user_assert: op->value.type().bits() >= 32"}

RECURSIVE Flatten(_)
Flatten(b) == IF b = <<>> THEN <<>> ELSE Head(b) \o Flatten(Tail(b))

AllInstrs == Flatten(blocks)

\* C4.  A store met with the flag set that is predicated or narrower than 32
\* bits fails with the atomic-store error and emits nothing; every atomic
\* store in the emitted code is unpredicated and at least 32 bits wide; a
\* store met with the flag clear never fails with that error.
C4_AtomicStoreChecked ==
    /\ (Visited("Store") /\ pre.flag /\ (~op.acc.pred \/ op.acc.bits < 32))
          => NothingDone /\ IsAtomicStoreError(err)
    /\ \A i \in 1..Len(AllInstrs) :
          (AllInstrs[i].k = "store" /\ AllInstrs[i].atomic)
             => AllInstrs[i].acc.pred /\ AllInstrs[i].acc.bits >= 32
    /\ (op.k = "Store" /\ ~pre.flag /\ pre.step = "visit")
          => ~IsAtomicStoreError(err)

\* C4 witness: a 16-bit store met inside an atomic region.
C4_Witness ==
    /\ Visited("Store")
    /\ pre.flag
    /\ op.acc.bits < 32
    /\ op.acc.pred
    /\ pc = "unwind"

\* C5.  An allocation with a custom new expression fails whatever its memory
\* type, and a local allocation whose constant size is not positive fails,
\* both before a binding, an alloca or a visit of the body.
C5_AllocateRejected ==
    /\ (Visited("Allocate") /\ op.new_expr)
          => NothingDone /\ err = "user_assert: !alloc->new_expr.defined()"
    /\ (Visited("Allocate") /\ ~op.new_expr /\ op.memory_type = "Stack"
           /\ op.size <= 0)
          => NothingDone /\ err = "internal_assert: size > 0"

\* C5 witness: a shared allocation with a custom new expression is met
\* after code has been emitted.
C5_Witness ==
    /\ Visited("Allocate")
    /\ op.new_expr
    /\ op.memory_type = "GPUShared"
    /\ blocks[body_block] /= <<>>

IsAlloca(i) == i.k = "alloca"

Uses(i) == i.k \in {"load", "store"} /\ i.ptr.k = "alloca"

\* The blocks other than the entry block.
OtherBlocks == (1..Len(blocks)) \ {entry_block}

\* C6.  A local allocation appends one alloca to the entry block and leaves
\* every other block and the insertion point alone; while the body is
\* lowered the insertion point is never the entry block and the entry block
\* holds allocas only, in the order they were met; the finished entry block
\* is those allocas and then one branch to the body block; an instruction
\* that uses an alloca is outside the entry block, its alloca inside.
C6_AllocaInEntryBlock ==
    /\ (Visited("Allocate") /\ op.memory_type = "Stack" /\ pc = "visit")
          => LET entry == blocks[entry_block] IN
             /\ Len(entry) = Len(pre.blocks[entry_block]) + 1
             /\ SubSeq(entry, 1, Len(entry) - 1) = pre.blocks[entry_block]
             /\ IsAlloca(entry[Len(entry)])
             /\ entry[Len(entry)].size = op.size
             /\ sym_get(syms, op.name) = entry[Len(entry)]
             /\ Len(blocks) = Len(pre.blocks)
             /\ \A b \in OtherBlocks : blocks[b] = pre.blocks[b]
             /\ insert = pre.insert
    /\ Lowering => insert \in OtherBlocks
    /\ (pc \in {"visit", "ret", "unwind"})
          => \A i \in 1..Len(blocks[entry_block]) :
                IsAlloca(blocks[entry_block][i])
    /\ (pc /= "idle")
          => \A i, j \in 1..Len(blocks[entry_block]) :
                (i < j /\ IsAlloca(blocks[entry_block][i])
                       /\ IsAlloca(blocks[entry_block][j]))
                   => blocks[entry_block][i].id < blocks[entry_block][j].id
    /\ pc = "done"
          => LET entry == blocks[entry_block] IN
             /\ Len(entry) >= 1
             /\ entry[Len(entry)] = [k |-> "br", to |-> body_block]
             /\ \A i \in 1..(Len(entry) - 1) : IsAlloca(entry[i])
    /\ \A b \in OtherBlocks : \A i \in 1..Len(blocks[b]) :
          /\ ~IsAlloca(blocks[b][i])
          /\ (Uses(blocks[b][i]) /\ blocks[b][i].ptr.fn = function)
                => \E j \in 1..Len(blocks[entry_block]) :
                      blocks[entry_block][j] = blocks[b][i].ptr

\* C6 witness: a finished kernel with two allocas, the second met inside a
\* serial loop after an instruction of the body, and a store through an
\* alloca in the block of that loop.
C6_Witness ==
    /\ pc = "done"
    /\ Len(blocks[entry_block]) = 3
    /\ blocks[entry_block][2].id > blocks[entry_block][1].id + 1
    /\ \E b \in OtherBlocks \ {body_block} :
          \E i \in 1..Len(blocks[b]) : Uses(blocks[b][i])

\* C7 as stated: when the lowering of an allocation returns, the binding
\* table equals the table on entry.
C7_AllocateUnbinds == Returned("Allocate") => syms = ret.syms0

\* The conditions of the wide-access match, as the claim C8 lists them.
C8_Conditions(a) ==
    /\ a.pred
    /\ a.ramp /\ a.stride = 1
    /\ a.lanes = 4
    /\ a.bits = 32
    /\ \E x \in 0..MaxModulus : a.align.modulus = 4 * x
    /\ \E x \in 0..MaxBase : a.align.remainder = 4 * x

\* The 128-bit access of the claim C8: index base / 4, alignment over 4.
C8_Wide(a) ==
    Access(a.name, TRUE, FALSE, a.base \div 4, 0, 1, 128,
           a.align.modulus \div 4, a.align.remainder \div 4)

C8_Rewritten(kind, a, code) ==
    /\ code.err = "none"
    /\ Len(code.instrs) = 2
    /\ IF kind = "Load"
       THEN /\ code.instrs[1].k = "load" /\ code.instrs[1].acc = C8_Wide(a)
            /\ code.instrs[2] = [k |-> "bitcast", lanes |-> 4, bits |-> 32]
       ELSE /\ code.instrs[1] = [k |-> "bitcast", lanes |-> 1, bits |-> 128]
            /\ code.instrs[2].k = "store" /\ code.instrs[2].acc = C8_Wide(a)

C8_Unchanged(kind, a, code) ==
    /\ code.err = "none"
    /\ Len(code.instrs) = 1
    /\ code.instrs[1].k = (IF kind = "Load" THEN "load" ELSE "store")
    /\ code.instrs[1].acc = a

\* C8 as stated: an access is rewritten if and only if all the conditions
\* hold, and otherwise goes unchanged to the generic path.
C8_FusionExactlyOriginal ==
    (px.k = "access" /\ px.phase = "lowered")
       => IF C8_Conditions(px.acc)
          THEN C8_Rewritten(px.kind, px.acc, px.code)
          ELSE C8_Unchanged(px.kind, px.acc, px.code)

\* C8 as amended: a store met inside an atomic region that is predicated or
\* narrower than 32 bits fails with the atomic-store error; any other access
\* is rewritten if and only if all the conditions hold, and otherwise goes
\* unchanged to the generic path.
C8_FusionExactly ==
    (px.k = "access" /\ px.phase = "lowered")
       => IF px.kind = "Store" /\ px.flag /\ (~px.acc.pred \/ px.acc.bits < 32)
          THEN IsAtomicStoreError(px.code.err) /\ px.code.instrs = <<>>
          ELSE IF C8_Conditions(px.acc)
          THEN C8_Rewritten(px.kind, px.acc, px.code)
          ELSE C8_Unchanged(px.kind, px.acc, px.code)

\* C8 witness: a store that meets every condition but the remainder is
\* lowered unchanged.
C8_Witness ==
    /\ px.k = "access" /\ px.phase = "lowered" /\ px.kind = "Store"
    /\ IsDenseRamp4x32(px.acc)
    /\ px.acc.align.modulus = 4 /\ px.acc.align.remainder = 1
    /\ C8_Unchanged(px.kind, px.acc, px.code)

\* C9.  Whenever a wide access was emitted, the emitted code and the generic
\* code of the same node are both well typed and leave the same memory and
\* the same value, the wide access covers the words base .. base + 3 in that
\* order, and a store through either path read back through the other yields
\* the lanes that were stored.
C9_WideAccessEquivalent ==
    (px.k = "access" /\ px.phase = "ran")
       => /\ px.wide.ok /\ px.plain.ok
          /\ px.wide.mem = px.plain.mem
          /\ px.kind = "Load" => px.wide.reg = px.plain.reg
          /\ \A i \in 1..Len(px.code.instrs) :
                px.code.instrs[i].k \in {"load", "store"}
                   => WordsOf(px.code.instrs[i].acc, 0)
                         = [j \in 1..4 |-> px.acc.base + (j - 1)]
          /\ px.kind = "Store"
                => /\ px.wide_plain.ok /\ px.plain_wide.ok
                   /\ px.wide_plain.reg = StoredValue
                   /\ px.plain_wide.reg = StoredValue

\* C9 witness: a wide store at a base other than zero under a known constant
\* index (modulus 0) has run.
C9_Witness ==
    /\ px.k = "access" /\ px.phase = "ran" /\ px.kind = "Store"
    /\ px.acc.base = 4
    /\ px.acc.align.modulus = 0
    /\ px.wide.mem[4] = 2 /\ px.wide.mem[7] = 5 /\ px.wide.mem[3] = 1

\* The first type of `order` that holds every value of the operand e, and
\* <<>> for none.
C10_First(order, e) ==
    LET fits == {i \in 1..Len(order) : can_represent(order[i], e)}
    IN IF fits = {} THEN <<>>
       ELSE <<order[CHOOSE i \in fits : \A j \in fits : i <= j]>>

C10_Order8(t) == IF t.uint THEN <<UIntN(8)>> ELSE <<IntN(8), UIntN(8)>>

C10_Order16(t) == IF t.uint THEN <<UIntN(16)>> ELSE <<UIntN(16), IntN(16)>>

\* The type each multiply operand ends at under the claim's procedure:
\* 8-bit attempts for both, then a 16-bit retry of the one that failed when
\* exactly the other one succeeded.
C10_Narrowed(t, e, other) ==
    IF C10_First(C10_Order8(t), e) /= <<>> THEN C10_First(C10_Order8(t), e)
    ELSE IF C10_First(C10_Order8(t), other) /= <<>> THEN C10_First(C10_Order16(t), e)
    ELSE <<>>

C10_Shape(r) ==
    /\ r.op = "Add" /\ r.mul
    /\ \E f \in {4, 8, 12, 16} : r.input_lanes = f * r.lanes
    /\ r.type.bits = 32 /\ (r.type.int \/ r.type.uint)

\* The type the emitted call gives the operand `of` of the multiply.
C10_TypeIn(out, of) ==
    IF out.a.of = of THEN <<out.a.type>>
    ELSE IF out.b.of = of THEN <<out.b.type>>
    ELSE <<>>

\* C10.  A reduction of the dot-product shape is rewritten to a fused call
\* exactly when both operands are narrowed by the procedure of the claim, and
\* the call holds each operand at the type the procedure ends at; every other
\* reduction goes to the generic path.
C10_NarrowingOrder ==
    (px.k = "reduce" /\ px.phase = "lowered")
       => LET r == px.node
              na == C10_Narrowed(r.type, r.a, r.b)
              nb == C10_Narrowed(r.type, r.b, r.a)
          IN IF C10_Shape(r) /\ na /= <<>> /\ nb /= <<>>
             THEN /\ px.out.path = "dot"
                  /\ C10_TypeIn(px.out, "mul->a") = na
                  /\ C10_TypeIn(px.out, "mul->b") = nb
             ELSE px.out.path = "generic"

\* C10 witness: a signed reduction whose first operand narrows to 8-bit
\* either way and whose second only narrows to unsigned 16-bit is fused, the
\* first taken as signed.
C10_Witness ==
    /\ px.k = "reduce" /\ px.phase = "lowered"
    /\ px.node.type = IntN(32)
    /\ px.node.a = Operand(0, 100)
    /\ px.node.b = Operand(0, 40000)
    /\ px.out.path = "dot"
    /\ C10_TypeIn(px.out, "mul->a") = <<IntN(8)>>
    /\ C10_TypeIn(px.out, "mul->b") = <<UIntN(16)>>

\* The fused call of a reduction of which exactly one multiply operand
\* narrows to 8-bit and the other to 16-bit: `narrow` names the 8-bit one.
C11_Mixed(r, narrow, wide) ==
    /\ C10_Shape(r)
    /\ C10_First(C10_Order8(r.type), IF narrow = "mul->a" THEN r.a ELSE r.b) /= <<>>
    /\ C10_First(C10_Order8(r.type), IF wide = "mul->a" THEN r.a ELSE r.b) = <<>>
    /\ C10_First(C10_Order16(r.type), IF wide = "mul->a" THEN r.a ELSE r.b) /= <<>>

C11_Sides == {<<"mul->a", "mul->b">>, <<"mul->b", "mul->a">>}

C11_Sign(t) == IF t.int THEN "_s32" ELSE "_u32"

\* The part of C11 that holds as stated: the fused instruction is chosen by
\* the width of the pair and the signedness of the first and of the second
\* operand of the call.
C11_NameTable ==
    (px.k = "reduce" /\ px.phase = "lowered" /\ px.out.path = "dot")
       => /\ px.out.name[1] = (IF px.out.a.type.bits = px.out.b.type.bits
                                THEN "dp4a" ELSE "dp2a")
          /\ px.out.name[2] = C11_Sign(px.out.a.type)
          /\ px.out.name[3] = C11_Sign(px.out.b.type)
          /\ px.out.b.type.bits = 8
          /\ px.out.a.type.bits \in {8, 16}
          /\ {px.out.a.of, px.out.b.of} = {"mul->a", "mul->b"}

\* C11 as amended.  When only one multiply operand narrows to 8-bit and the
\* other narrows to 16-bit, the reduction is fused with the 16-bit operand as
\* the first operand of the call and the 8-bit operand as the second,
\* whichever side of the multiply each came from.
C11_MixedWidthOrder ==
    /\ C11_NameTable
    /\ (px.k = "reduce" /\ px.phase = "lowered")
          => \A s \in C11_Sides :
                C11_Mixed(px.node, s[1], s[2])
                   => /\ px.out.path = "dot"
                      /\ px.out.name[1] = "dp2a"
                      /\ px.out.a.type.bits = 16 /\ px.out.a.of = s[2]
                      /\ px.out.b.type.bits = 8 /\ px.out.b.of = s[1]

\* C11 as stated: in every mixed-width fused call the first operand is the
\* 8-bit one and the second the 16-bit one.
C11_MixedWidthOrderOriginal ==
    /\ C11_NameTable
    /\ (px.k = "reduce" /\ px.phase = "lowered")
          => \A s \in C11_Sides :
                C11_Mixed(px.node, s[1], s[2])
                   => /\ px.out.path = "dot"
                      /\ px.out.name[1] = "dp2a"
                      /\ px.out.a.type.bits = 8 /\ px.out.a.of = s[1]
                      /\ px.out.b.type.bits = 16 /\ px.out.b.of = s[2]

\* C11 witness: the first operand of the multiply narrows to 8-bit, the
\* second to 16-bit only; the arguments are swapped and the call is fused.
C11_Witness ==
    /\ px.k = "reduce" /\ px.phase = "lowered"
    /\ C11_Mixed(px.node, "mul->a", "mul->b")
    /\ px.out.path = "dot"
    /\ px.out.a.of = "mul->b"
    /\ px.out.b.of = "mul->a"

\* The generation each architecture id stands for.
C12_Generation ==
    [a \in {"sm_20", "sm_30", "sm_32", "sm_35", "sm_50", "sm_61", "sm_70",
             "sm_75", "sm_80"} |->
        CASE a = "sm_20" -> 20 [] a = "sm_30" -> 30 [] a = "sm_32" -> 32
          [] a = "sm_35" -> 35 [] a = "sm_50" -> 50 [] a = "sm_61" -> 61
          [] a = "sm_70" -> 70 [] a = "sm_75" -> 75 [] a = "sm_80" -> 80]

C12_Resolved == px.k = "target" /\ px.phase = "resolved"

C13_ValidationFailsFast ==
    (pc = "done" /\ Returned("kernel")) => ~ret.broken

\* C14 as stated: when a failure has left a visit, or add_kernel, the flag is
\* the one that visit was entered with, and once it has left add_kernel the
\* binding table is the one add_kernel was entered with.
C14_FailureRestoresScope ==
    (pre.step = "unwind")
       => /\ emit_atomic_stores = ret.flag0
          /\ pc = "error" => syms = ret.syms0

C15_Accepted(n) == Len(n.args) = 1 /\ n.args[1].const

C15_BarrierCalls(instrs) ==
    {i \in 1..Len(instrs) : instrs[i] = [k |-> "call", f |-> "llvm.nvvm.barrier0"]}

C16_Version ==
    [f \in {"", "+ptx40", "+ptx50", "+ptx60", "+ptx70"} |->
        CASE f = "" -> 0 [] f = "+ptx40" -> 40 [] f = "+ptx50" -> 50
          [] f = "+ptx60" -> 60 [] f = "+ptx70" -> 70]

\* The feature string of target a is at least as new as that of target b.
C16_NotOlder(a, b) == C16_Version[mattrs(a)] >= C16_Version[mattrs(b)]

C16_SameOrNewer(a, b) == C12_Generation[mcpu(a)] >= C12_Generation[mcpu(b)]

\* C16 as amended.  If the architecture resolved for a target is the same as
\* or newer than the one resolved for another, its feature string is at
\* least as new, unless the first resolves sm_35 without the 3.2 flag and
\* the second has the 3.2 flag: then the first has the default string and
\* the second +ptx40.
C16_FeatureMonotone ==
    C12_Resolved
       => /\ px.mattrs = mattrs(px.target) /\ px.mcpu = mcpu(px.target)
          /\ \A b \in Targets :
                C16_SameOrNewer(px.target, b)
                   => IF px.mcpu = "sm_35" /\ 32 \notin px.target /\ 32 \in b
                      THEN px.mattrs = "" /\ mattrs(b) = "+ptx40"
                      ELSE C16_Version[px.mattrs] >= C16_Version[mattrs(b)]

\* C16 as stated: the feature string never gets older as the resolved
\* architecture gets newer.
C16_FeatureMonotoneOriginal ==
    C12_Resolved
       => \A b \in Targets :
             C16_SameOrNewer(px.target, b)
                => C16_Version[px.mattrs] >= C16_Version[mattrs(b)]

\* C16 witness: a target with the 7.5 flag and older ones is resolved to
\* sm_75 and +ptx60, as new as what the 7.0 flag alone gets.
C16_Witness ==
    /\ C12_Resolved
    /\ px.target = {32, 50, 75}
    /\ px.mcpu = "sm_75"
    /\ px.mattrs = "+ptx60"
    /\ C16_SameOrNewer(px.target, {70})
    /\ C16_NotOlder(px.target, {70})

====
